---- MODULE Spec2Model ----
(***************************************************************************)
(* Hertz: two prototypes of one uptime monitor.                            *)
(*   main.py  HertzDashboard: one set_interval timer starts a              *)
(*            check_services worker that probes the services in list order *)
(*   temp.py  MainScreen: one monitor_service task per added service       *)
(* The variable proto says which of the two programs is running.  Time is  *)
(* the integer variable now (seconds since on_mount); it advances only to  *)
(* the next moment at which a timer, a sleep or a request timeout is due.  *)
(***************************************************************************)
EXTENDS Integers, Sequences, FiniteSets, TLC

\* ---------------------------------------------------------------- constants
DEFAULT_INTERVAL == 10
PROBE_TIMEOUT == 5
GRAPH_WINDOW == 30

\* ------------------------------------------------------------------- bounds
\* MaxServices caps the adds, MaxProbes the timer firings (main.py) and the
\* probes of one task (temp.py), MaxStoreLen the records of the file found
MaxServices == 2
MaxProbes == 2
MaxStoreLen == 2
\* the history capacity N of the retention claim, scaled to the model
HistoryCap == 1

Names == {"a", "b"}
\* what the user types in the interval field of the add-service modal
IntervalInputs == {"", "0", "5"}
StatusCodes == {200, 500}

\* ------------------------------------------------------------------ helpers
Min(S) == CHOOSE x \in S : \A y \in S : x <= y

Max0(x) == IF x > 0 THEN x ELSE 0

SeqsUpTo(S, n) == UNION {[1..k -> S] : k \in 0..n}

HasKeys(d, ks) == ks \subseteq DOMAIN d

Put(d, k, v) == (k :> v) @@ d

FieldsOf(d, ks) == [k \in ks \cap DOMAIN d |-> d[k]]

ConfigKeys == {"name", "url", "path", "check_interval"}

\* int(): the decimal strings the modal can carry; anything else is ValueError
IsInt(s) == s \in {"0", "5", "10", "30"}

ParseInt(s) ==
    CASE s = "0" -> 0
      [] s = "5" -> 5
      [] s = "10" -> 10
      [] s = "30" -> 30

StrInt(n) ==
    CASE n = 10 -> "10"
      [] n = 30 -> "30"
      [] n = 5 -> "5"
      [] n = 0 -> "0"

\* ------------------------------------------------------------ probe results
Response(c) == [kind |-> "response", code |-> c]

Failure == [kind |-> "failure", code |-> 0]

NoResult == [kind |-> "none", code |-> 0]

Results == {Response(c) : c \in StatusCodes} \cup {Failure}

\* the classification with the except branch recording DOWN
StatusMain_ExceptDown(r) ==
    IF r.kind = "failure" THEN "DOWN"
    ELSE IF r.code = 200 THEN "UP" ELSE "DOWN"

\* main.py: status = "UP" if response.status_code == 200 else "DOWN";
\* except Exception: status = "ERROR"
StatusMain(r) ==
    IF r.kind = "failure" THEN "ERROR"
    ELSE IF r.code = 200 THEN "UP" ELSE "DOWN"

\* main.py: latency is the elapsed time of the request, 0 after an exception
LatencyMain(r, dur) == IF r.kind = "failure" THEN 0 ELSE dur

StrCode(c) ==
    CASE c = 200 -> "200"
      [] c = 500 -> "500"
      [] OTHER -> "other"

\* temp.py: the status label, as (status, detail)
StatusTemp(r) ==
    IF r.kind = "failure" THEN [status |-> "ERROR", detail |-> "exception"]
    ELSE IF r.code = 200 THEN [status |-> "UP", detail |-> ""]
    ELSE [status |-> "DOWN", detail |-> StrCode(r.code)]

\* -------------------------------------------------------------------- state
VARIABLES
    proto,            \* "main" (main.py) or "temp" (temp.py)
    phase,            \* "init" before on_mount, "running" after
    now,              \* seconds since on_mount
    store,            \* hertz_config.json
    services,         \* self.services
    table,            \* main.py: the rows of #services-table
    row_keys,         \* main.py: self.row_keys, name -> row
    column_keys,      \* main.py: TRUE once self.column_keys is filled
    workers,          \* main.py: the running check_services workers
    nextFire,         \* main.py: when the check_services timer fires next
    fires,            \* main.py: how often that timer has fired
    current_service,  \* main.py: index of self.current_service, 0 for None
    service_widgets,  \* temp.py: self.service_widgets, name -> widget
    widgets,          \* temp.py: the labels of the mounted ServiceStatus widgets
    tasks,            \* temp.py: where each monitor_service task stands
    addedAt,          \* history variable: when each service entered self.services
    probeLog          \* history variable: the last completed probe of each service

vars == <<proto, phase, now, store, services, table, row_keys, column_keys,
          workers, nextFire, fires, current_service, service_widgets, widgets,
          tasks, addedAt, probeLog>>

mainVars == <<table, row_keys, column_keys, workers, nextFire, fires, current_service>>

tempVars == <<service_widgets, widgets, tasks>>

EmptyMap == [n \in {} |-> 0]

\* ------------------------------------------------------------ config store
Url == "http://h:1"

RecA == [name |-> "a", url |-> Url, path |-> "/", check_interval |-> 5]

RecB == [name |-> "b", url |-> Url, path |-> "/", check_interval |-> 0]

RecNoPath == [name |-> "b", url |-> Url]

StoreRecords == {RecA, RecB, RecNoPath}

NoFile == [exists |-> FALSE, ok |-> FALSE, recs |-> <<>>]

BrokenFile == [exists |-> TRUE, ok |-> FALSE, recs |-> <<>>]

GoodFile(recs) == [exists |-> TRUE, ok |-> TRUE, recs |-> recs]

InitStores ==
    {NoFile, BrokenFile} \cup {GoodFile(q) : q \in SeqsUpTo(StoreRecords, MaxStoreLen)}

\* json.dump refuses a datetime: main.py's history entries carry one
Serialisable(d) == ~("history" \in DOMAIN d) \/ d["history"] = <<>>

\* the number of leading services json.dump writes before it raises
DumpedPrefix(svcs) ==
    IF \A i \in 1..Len(svcs) : Serialisable(svcs[i]) THEN Len(svcs)
    ELSE Min({i \in 1..Len(svcs) : ~Serialisable(svcs[i])}) - 1

\* main.py save_services_to_config: open(CONFIG_FILE, "w") truncates the file,
\* json.dump(self.services) writes the dicts as they are, one chunk at a time
SaveMain(svcs) ==
    IF DumpedPrefix(svcs) = Len(svcs) THEN GoodFile(svcs)
    ELSE [exists |-> TRUE, ok |-> FALSE, recs |-> SubSeq(svcs, 1, DumpedPrefix(svcs))]

\* temp.py save_config: the four config fields of every service
ConfigOfTemp(s) ==
    [name |-> s.name, url |-> s.url, path |-> s.path, check_interval |-> s.check_interval]

SaveTemp(svcs) == GoodFile([i \in 1..Len(svcs) |-> ConfigOfTemp(svcs[i])])

\* temp.py ServiceConfig.__init__
ServiceConfig(name, url, path, check_interval) ==
    [name |-> name, url |-> url, path |-> path, check_interval |-> check_interval,
     status |-> "Unknown", last_check |-> -1, response_time |-> -1]

\* the state after construction, before on_mount, beside one of the files
InitOver(protos, files) ==
    /\ proto \in protos
    /\ phase = "init"
    /\ now = 0
    /\ store \in files
    /\ services = <<>>
    /\ table = <<>>
    /\ row_keys = EmptyMap
    /\ column_keys = FALSE
    /\ workers = {}
    /\ nextFire = 0
    /\ fires = 0
    /\ current_service = 0
    /\ service_widgets = EmptyMap
    /\ widgets = <<>>
    /\ tasks = <<>>
    /\ addedAt = <<>>
    /\ probeLog = <<>>

Init == InitOver({"main", "temp"}, InitStores)

NewLog == [n |-> 0, start |-> -1, end |-> -1, result |-> NoResult]

\* ------------------------------------------------------------------ main.py
RowKeys == {"name", "url", "path"}

PendingRow(svc) == [name |-> svc["name"], status |-> "PENDING", last_check |-> -1]

\* load_services_from_config adds rows until a record lacks a cell's key
RowsLoadable(recs) ==
    IF \A i \in 1..Len(recs) : HasKeys(recs[i], RowKeys) THEN Len(recs)
    ELSE Min({i \in 1..Len(recs) : ~HasKeys(recs[i], RowKeys)}) - 1

\* self.row_keys[service["name"]] = row_key: the last row of a name wins
RowKeysOf(tbl) ==
    [n \in {tbl[i].name : i \in 1..Len(tbl)} |->
        CHOOSE i \in 1..Len(tbl) :
            /\ tbl[i].name = n
            /\ \A j \in 1..Len(tbl) : tbl[j].name = n => j <= i]

\* the services a run of main.py starts with, given the file it finds
LoadMain(st) == IF st.exists /\ st.ok THEN st.recs ELSE <<>>

OnMountMain ==
    /\ proto = "main"
    /\ phase = "init"
    /\ phase' = "running"
    /\ services' = LoadMain(store)
    /\ column_keys' = (store.exists /\ store.ok)
    /\ table' = [i \in 1..RowsLoadable(services') |-> PendingRow(services'[i])]
    /\ row_keys' = RowKeysOf(table')
    /\ nextFire' = now + DEFAULT_INTERVAL
    /\ addedAt' = [i \in 1..Len(services') |-> now]
    /\ probeLog' = [i \in 1..Len(services') |-> NewLog]
    /\ UNCHANGED <<proto, now, store, workers, fires, current_service>>
    /\ UNCHANGED tempVars

\* AddServiceModal.on_button_pressed: the dict handed to dismiss, or "none"
ModalResultMain(name, host, port, pathIn, intervalIn) ==
    LET path == IF pathIn = "" THEN "/" ELSE pathIn
        interval == IF intervalIn = "" THEN StrInt(DEFAULT_INTERVAL) ELSE intervalIn
    IN  IF name # "" /\ host # "" /\ port # "" /\ interval # "" /\ IsInt(interval)
        THEN {[name |-> name, url |-> "http://" \o host \o ":" \o port, path |-> path,
               check_interval |-> ParseInt(interval), history |-> <<>>]}
        ELSE {}

\* action_add_service: the modal's result goes to add_service_callback
AddServiceMain ==
    /\ proto = "main"
    /\ phase = "running"
    /\ Len(services) < MaxServices
    /\ \E name \in Names \cup {""}, intervalIn \in IntervalInputs :
        LET res == ModalResultMain(name, "h", "1", "", intervalIn)
        IN  IF res = {}
            THEN UNCHANGED <<services, table, row_keys, store, addedAt, probeLog>>
            ELSE LET result == CHOOSE r \in res : TRUE
                 IN  /\ services' = Append(services, result)
                     /\ table' = Append(table, PendingRow(result))
                     /\ row_keys' = Put(row_keys, result["name"], Len(table'))
                     /\ store' = SaveMain(services')
                     /\ addedAt' = Append(addedAt, now)
                     /\ probeLog' = Append(probeLog, NewLog)
    /\ UNCHANGED <<proto, phase, now, column_keys, workers, nextFire, fires,
                   current_service>>
    /\ UNCHANGED tempVars

\* url = f"{service['url']}{service['path']}" stands outside the try
CanBuildUrl(svc) == HasKeys(svc, {"url", "path"})

\* the worker's for loop reaches services[i]: it starts the probe, ends when the
\* list is exhausted, and dies of KeyError when the url cannot be built
WorkerAt(i, fired, svcs) ==
    IF i <= Len(svcs) /\ CanBuildUrl(svcs[i])
    THEN {[idx |-> i, fired |-> fired, started |-> now]}
    ELSE {}

\* the set_interval(DEFAULT_INTERVAL, self.check_services) timer fires
CheckServicesFire ==
    /\ proto = "main"
    /\ phase = "running"
    /\ now = nextFire
    /\ fires < MaxProbes
    /\ fires' = fires + 1
    /\ nextFire' = nextFire + DEFAULT_INTERVAL
    /\ workers' = workers \cup WorkerAt(1, now, services)
    /\ UNCHANGED <<proto, phase, now, store, services, table, row_keys, column_keys,
                   current_service, addedAt, probeLog>>
    /\ UNCHANGED tempVars

AppendOutcome(svc, entry) ==
    IF "history" \in DOMAIN svc
    THEN [svc EXCEPT !["history"] = Append(@, entry)]
    ELSE Put(svc, "history", <<entry>>)

HistoryOf(svc) == IF "history" \in DOMAIN svc THEN svc["history"] ELSE <<>>

\* update_service_row: what it derives from the history
LastStatus(svc) ==
    IF HistoryOf(svc) = <<>> THEN "UNKNOWN"
    ELSE HistoryOf(svc)[Len(HistoryOf(svc))].status

LastCheck(svc) ==
    IF HistoryOf(svc) = <<>> THEN -1
    ELSE HistoryOf(svc)[Len(HistoryOf(svc))].timestamp

\* update_service_row: the cells change when the name has a row key and the
\* column keys are known; a KeyError is caught and shown
UpdateServiceRow(tbl, svc) ==
    IF "name" \in DOMAIN svc /\ svc["name"] \in DOMAIN row_keys /\ column_keys
    THEN [tbl EXCEPT ![row_keys[svc["name"]]] =
              [@ EXCEPT !.status = LastStatus(svc), !.last_check = LastCheck(svc)]]
    ELSE tbl

\* the outcome's timestamp, stamped with the request's start
OutcomeTime_Start(w) == w.started

\* "timestamp": datetime.now(), taken when the outcome is appended
OutcomeTime(w) == now

\* one list shared by the histories of all services
Appended_Shared(svcs, i, entry) ==
    [k \in 1..Len(svcs) |-> AppendOutcome(svcs[k], entry)]

\* service["history"].append(...): the list of the service probed, no other
Appended(svcs, i, entry) == [svcs EXCEPT ![i] = AppendOutcome(@, entry)]

\* a request of a worker ends after dur seconds with result r: the rest of the
\* loop body runs and the loop goes on to the next service
CompleteProbe(w, r) ==
    LET dur == now - w.started
        entry == [timestamp |-> OutcomeTime(w), status |-> StatusMain(r),
                  latency |-> LatencyMain(r, dur)]
    IN  /\ proto = "main"
        /\ w \in workers
        /\ dur < PROBE_TIMEOUT \/ r.kind = "failure"
        /\ services' = Appended(services, w.idx, entry)
        /\ table' = UpdateServiceRow(table, services'[w.idx])
        /\ workers' = (workers \ {w}) \cup WorkerAt(w.idx + 1, w.fired, services')
        /\ probeLog' = [probeLog EXCEPT ![w.idx] =
               [n |-> @.n + 1, start |-> w.started, end |-> now, result |-> r]]
        /\ UNCHANGED <<proto, phase, now, store, row_keys, column_keys, nextFire,
                       fires, current_service, addedAt>>
        /\ UNCHANGED tempVars

CheckServicesStep == \E w \in workers, r \in Results : CompleteProbe(w, r)

\* update_graph: the series it plots for a service
GraphSeries(svc) ==
    LET h == HistoryOf(svc)
    IN  IF Len(h) <= GRAPH_WINDOW THEN h ELSE SubSeq(h, Len(h) - GRAPH_WINDOW + 1, Len(h))

\* ------------------------------------------------------------------ temp.py
NewWidget == [status |-> [status |-> "Unknown", detail |-> ""], last_check |-> -1,
              response_time |-> -1]

\* asyncio.create_task(self.monitor_service(widget)): the loop body starts with
\* the request, the sleep comes after it
NewTask == [pc |-> "probing", at |-> now]

\* load_config builds a ServiceConfig per record until one lacks a key
LoadableTemp(recs) ==
    IF \A i \in 1..Len(recs) : HasKeys(recs[i], ConfigKeys) THEN Len(recs)
    ELSE Min({i \in 1..Len(recs) : ~HasKeys(recs[i], ConfigKeys)}) - 1

\* the services a run of temp.py starts with, given the file it finds
LoadTemp(st) ==
    IF st.exists /\ st.ok
    THEN [i \in 1..LoadableTemp(st.recs) |->
             ServiceConfig(st.recs[i]["name"], st.recs[i]["url"], st.recs[i]["path"],
                           st.recs[i]["check_interval"])]
    ELSE <<>>

WidgetKeysOf(svcs) ==
    [n \in {svcs[i].name : i \in 1..Len(svcs)} |->
        CHOOSE i \in 1..Len(svcs) :
            /\ svcs[i].name = n
            /\ \A j \in 1..Len(svcs) : svcs[j].name = n => j <= i]

\* MainScreen.on_mount: load_config, which calls add_service for every record
OnMountTemp ==
    /\ proto = "temp"
    /\ phase = "init"
    /\ phase' = "running"
    /\ services' = LoadTemp(store)
    /\ store' = IF services' = <<>> THEN store ELSE SaveTemp(services')
    /\ service_widgets' = WidgetKeysOf(services')
    /\ widgets' = [i \in 1..Len(services') |-> NewWidget]
    /\ tasks' = [i \in 1..Len(services') |-> NewTask]
    /\ addedAt' = [i \in 1..Len(services') |-> now]
    /\ probeLog' = [i \in 1..Len(services') |-> NewLog]
    /\ UNCHANGED <<proto, now>>
    /\ UNCHANGED mainVars

\* AddServiceModal.on_button_pressed: the ServiceConfig it builds, or none
ModalResultTemp(name, hostPort, hasScheme, path, intervalIn) ==
    IF name = "" \/ hostPort = "" THEN {}
    ELSE IF ~IsInt(intervalIn) THEN {}
    ELSE {ServiceConfig(name, IF hasScheme THEN hostPort ELSE "http://" \o hostPort,
                        path, ParseInt(intervalIn))}

\* the modal's Add button, then MainScreen.add_service
AddServiceTemp ==
    /\ proto = "temp"
    /\ phase = "running"
    /\ Len(services) < MaxServices
    /\ \E name \in Names \cup {""}, intervalIn \in IntervalInputs :
        LET res == ModalResultTemp(name, "h:1", FALSE, "/", intervalIn)
        IN  IF res = {}
            THEN UNCHANGED <<services, store, service_widgets, widgets, tasks,
                             addedAt, probeLog>>
            ELSE LET service == CHOOSE r \in res : TRUE
                 IN  /\ services' = Append(services, service)
                     /\ store' = SaveTemp(services')
                     /\ service_widgets' = Put(service_widgets, service.name, Len(services'))
                     /\ widgets' = Append(widgets, NewWidget)
                     /\ tasks' = Append(tasks, NewTask)
                     /\ addedAt' = Append(addedAt, now)
                     /\ probeLog' = Append(probeLog, NewLog)
    /\ UNCHANGED <<proto, phase, now>>
    /\ UNCHANGED mainVars

\* temp.py sets no timeout of its own; the model lets one of its requests hang
\* for as long as a request of main.py may
TempHang == PROBE_TIMEOUT

\* monitor_service: the request of task i ends with result r, the labels are
\* updated and the task sleeps for check_interval
MonitorComplete(i, r) ==
    /\ proto = "temp"
    /\ i \in 1..Len(tasks)
    /\ tasks[i].pc = "probing"
    /\ now - tasks[i].at < TempHang \/ r.kind = "failure"
    /\ widgets' = [widgets EXCEPT ![i] =
           [status |-> StatusTemp(r),
            last_check |-> now,
            response_time |-> IF r.kind = "response" /\ r.code = 200
                              THEN now - tasks[i].at ELSE -1]]
    /\ tasks' = [tasks EXCEPT ![i] =
           [pc |-> "sleeping", at |-> now + Max0(services[i].check_interval)]]
    /\ probeLog' = [probeLog EXCEPT ![i] =
           [n |-> @.n + 1, start |-> tasks[i].at, end |-> now, result |-> r]]
    /\ UNCHANGED <<proto, phase, now, store, services, service_widgets, addedAt>>
    /\ UNCHANGED mainVars

\* monitor_service: asyncio.sleep returns and the loop starts the next request
MonitorWake(i) ==
    /\ proto = "temp"
    /\ i \in 1..Len(tasks)
    /\ tasks[i].pc = "sleeping"
    /\ tasks[i].at = now
    /\ probeLog[i].n < MaxProbes
    /\ tasks' = [tasks EXCEPT ![i] = [pc |-> "probing", at |-> now]]
    /\ UNCHANGED <<proto, phase, now, store, services, service_widgets, widgets,
                   addedAt, probeLog>>
    /\ UNCHANGED mainVars

MonitorStep ==
    \/ \E i \in 1..Len(tasks), r \in Results : MonitorComplete(i, r)
    \/ \E i \in 1..Len(tasks) : MonitorWake(i)

\* --------------------------------------------------------------------- time
\* the moments at which something is due: the timer, a request's timeout, the
\* end of a sleep
Deadlines ==
    IF proto = "main"
    THEN (IF fires < MaxProbes THEN {nextFire} ELSE {})
         \cup {w.started + PROBE_TIMEOUT : w \in workers}
    ELSE {tasks[i].at + TempHang : i \in {j \in 1..Len(tasks) : tasks[j].pc = "probing"}}
         \cup {tasks[i].at : i \in {j \in 1..Len(tasks) :
                   tasks[j].pc = "sleeping" /\ probeLog[j].n < MaxProbes}}

\* time passes up to the next deadline, never beyond one
Advance ==
    /\ phase = "running"
    /\ Deadlines # {}
    /\ Min(Deadlines) > now
    /\ now' = Min(Deadlines)
    /\ UNCHANGED <<proto, phase, store, services, addedAt, probeLog>>
    /\ UNCHANGED mainVars
    /\ UNCHANGED tempVars

Next ==
    \/ OnMountMain
    \/ AddServiceMain
    \/ CheckServicesFire
    \/ CheckServicesStep
    \/ OnMountTemp
    \/ AddServiceTemp
    \/ MonitorStep
    \/ Advance

Spec == Init /\ [][Next]_vars

\* a run of main.py over a config file of three services, nobody adding any
RecC == [name |-> "c", url |-> Url, path |-> "/", check_interval |-> 30]

InitThree == InitOver({"main"}, {GoodFile(<<RecA, RecB, RecC>>)})

NextThree ==
    \/ OnMountMain
    \/ CheckServicesFire
    \/ CheckServicesStep
    \/ Advance

SpecThree == InitThree /\ [][NextThree]_vars

\* the service a row stands for, counted from 1, with the next one selected
SelectedIndex_Next(rowIndex) == rowIndex + 2

\* self.services[event.row_index]: the service a row stands for, counted from 1
SelectedIndex(rowIndex) == rowIndex + 1

\* show_service_details: a row of the table is selected; update_graph then
\* plots the selected service's history and changes nothing
ShowServiceDetails ==
    /\ proto = "main"
    /\ phase = "running"
    /\ \E rowIndex \in 0..(Len(table) - 1) :
          current_service' = IF rowIndex < Len(services) THEN SelectedIndex(rowIndex)
                             ELSE current_service
    /\ UNCHANGED <<proto, phase, now, store, services, table, row_keys, column_keys,
                   workers, nextFire, fires, addedAt, probeLog>>
    /\ UNCHANGED tempVars

\* a run of main.py in which rows are selected
InitSelect == InitOver({"main"}, InitStores)

NextSelect ==
    \/ OnMountMain
    \/ AddServiceMain
    \/ CheckServicesFire
    \/ CheckServicesStep
    \/ ShowServiceDetails
    \/ Advance

SpecSelect == InitSelect /\ [][NextSelect]_vars

\* ------------------------------------------------------------------- claims
Running == phase = "running"

Svc == 1..Len(services)

IntervalOf(i) ==
    IF proto = "temp" THEN services[i].check_interval
    ELSE IF "check_interval" \in DOMAIN services[i] THEN services[i]["check_interval"]
    ELSE DEFAULT_INTERVAL

\* the probes in flight, as (service, start, firing of the trigger that started it)
InFlight ==
    IF proto = "main"
    THEN {[svc |-> w.idx, started |-> w.started, due |-> w.fired] : w \in workers}
    ELSE {[svc |-> i, started |-> tasks[i].at,
           due |-> IF probeLog[i].n = 0 THEN addedAt[i]
                   ELSE probeLog[i].end + Max0(services[i].check_interval)] :
              i \in {j \in 1..Len(tasks) : tasks[j].pc = "probing"}}

\* C1: a probe of one service that hangs never delays the start of another
\* service's probe: every probe starts at the moment its trigger fired.
C1_NoDelay == \A p \in InFlight : p.started = p.due

\* the status recorded by the last completed probe of service i
Recorded(i) ==
    IF proto = "main" THEN LastStatus(services[i]) ELSE widgets[i].status.status

\* C2: the recorded status is UP for a response with code 200, DOWN for a
\* response with any other code, ERROR for a request that failed; nothing else
\* is ever recorded.
C2_Classification ==
    /\ \A i \in Svc : probeLog[i].n > 0 =>
          LET r == probeLog[i].result
          IN  /\ Recorded(i) \in {"UP", "DOWN", "ERROR"}
              /\ Recorded(i) = "UP" <=> (r.kind = "response" /\ r.code = 200)
              /\ Recorded(i) = "DOWN" <=> (r.kind = "response" /\ r.code # 200)
              /\ Recorded(i) = "ERROR" <=> r.kind = "failure"
    /\ proto = "main" =>
          \A i \in Svc : \A k \in 1..Len(HistoryOf(services[i])) :
              HistoryOf(services[i])[k].status \in {"UP", "DOWN", "ERROR"}

C2_Witness ==
    \E i, j \in Svc :
        /\ probeLog[i].result = Response(500) /\ Recorded(i) = "DOWN"
        /\ probeLog[j].result = Failure /\ Recorded(j) = "ERROR"

\* the current status of service i: the Status cell of its row (main.py),
\* ServiceConfig.status (temp.py)
CurrentStatus(i) ==
    IF proto = "temp" THEN services[i].status
    ELSE table[row_keys[services[i]["name"]]].status

HasStatus(i) ==
    proto = "main" =>
        "name" \in DOMAIN services[i] /\ services[i]["name"] \in DOMAIN row_keys

\* how the prototypes spell the status of a service that has no outcome yet
NoOutcomeYet == {"UNKNOWN", "Unknown", "PENDING"}

\* C3: the current status of a service is the status of its latest outcome,
\* and the no-outcome status while no probe of it has completed.
C3_CurrentStatus ==
    \A i \in Svc : HasStatus(i) =>
        IF probeLog[i].n = 0 THEN CurrentStatus(i) \in NoOutcomeYet
        ELSE CurrentStatus(i) = StatusMain(probeLog[i].result)

\* C4: the stored history of a service never holds more than N outcomes.
C4_HistoryBounded ==
    proto = "main" => \A i \in Svc : Len(HistoryOf(services[i])) <= HistoryCap

NameOf(i) ==
    IF proto = "temp" THEN services[i].name
    ELSE IF "name" \in DOMAIN services[i] THEN services[i]["name"] ELSE ""

\* C5: the names in the registry are pairwise distinct.
C5_NamesDistinct == \A i, j \in Svc : i # j => NameOf(i) # NameOf(j)

\* C6: every service in the registry has check_interval >= 1.
C6_IntervalPositive == \A i \in Svc : IntervalOf(i) >= 1

ConfigTuples(svcs) ==
    IF proto = "temp" THEN {ConfigOfTemp(svcs[i]) : i \in 1..Len(svcs)}
    ELSE {FieldsOf(svcs[i], ConfigKeys) : i \in 1..Len(svcs)}

Reloaded == IF proto = "temp" THEN LoadTemp(SaveTemp(services))
            ELSE LoadMain(SaveMain(services))

\* C7: saving the registered services and loading them in a fresh run gives
\* the same set of (name, url, path, check_interval), with empty histories.
C7_RoundTrip ==
    Running =>
        /\ ConfigTuples(Reloaded) = ConfigTuples(services)
        /\ proto = "main" => \A i \in 1..Len(Reloaded) : HistoryOf(Reloaded[i]) = <<>>

\* C8: no probe of a service starts before one check_interval has passed
\* since the service was added.
C8_FirstProbeAfterInterval ==
    \A p \in InFlight : p.started >= addedAt[p.svc] + IntervalOf(p.svc)

\* C9: a service is probed with the period check_interval: a probe that follows
\* another of the same service starts check_interval after it (after its start,
\* or after its end).
C9_OwnPeriod ==
    \A p \in InFlight : probeLog[p.svc].n > 0 =>
        \/ p.started - probeLog[p.svc].start = IntervalOf(p.svc)
        \/ p.started - probeLog[p.svc].end = IntervalOf(p.svc)

\* C10: no service has two probes in flight (a request whose timeout is just
\* due counts as finished).
C10_OneInFlight ==
    \A p, q \in InFlight :
        (/\ p.svc = q.svc
         /\ now < p.started + PROBE_TIMEOUT
         /\ now < q.started + PROBE_TIMEOUT) => p = q

\* C11: a service whose probe cannot even be attempted does not stop the
\* others: once the passes fired so far have ended, every service registered
\* from the start whose url can be built has one outcome per firing.
C11_OthersKeepProbed ==
    (proto = "main" /\ workers = {}) =>
        \A i \in Svc : (addedAt[i] = 0 /\ CanBuildUrl(services[i])) =>
            probeLog[i].n = fires

\* a record of the file that passes validation
ValidRecord(r) == HasKeys(r, ConfigKeys) /\ r["check_interval"] >= 1

ConfigSeq(svcs) ==
    [i \in 1..Len(svcs) |->
        IF proto = "temp" THEN ConfigOfTemp(svcs[i]) ELSE FieldsOf(svcs[i], ConfigKeys)]

\* C12: a load registers the valid records of the file, in their order, and
\* no invalid one.
C12_SkipsInvalid ==
    [][(phase = "init" /\ phase' = "running" /\ store.exists /\ store.ok) =>
           ConfigSeq(services') = SelectSeq(store.recs, ValidRecord)]_vars

\* C14: every record of the config file holds config fields only (name, url,
\* path, check_interval), never a history.
C14_ConfigFieldsOnly ==
    store.exists => \A k \in 1..Len(store.recs) : DOMAIN store.recs[k] \subseteq ConfigKeys

\* C15: every write of the config file leaves a complete file.
C15_AtomicWrite == [][store' # store => store'.ok]_vars

\* C16: in every history the timestamps never decrease from oldest to newest,
\* also when two passes of check_services overlap and append to one history.
C16_TimestampsOrdered ==
    \A i \in Svc :
        LET h == HistoryOf(services[i])
        IN  \A k \in 1..(Len(h) - 1) : h[k].timestamp <= h[k + 1].timestamp

\* the newest outcome of a history belongs to a request that was started
\* before the outcome preceding it was appended: two passes have overlapped
C16_Witness ==
    \E i \in Svc :
        LET h == HistoryOf(services[i])
        IN  /\ Len(h) >= 2
            /\ probeLog[i].start < h[Len(h) - 1].timestamp

\* a probe of service i completes in this step
Completes(i) == probeLog'[i].n = probeLog[i].n + 1

\* C17: a completed probe of a service appends exactly one outcome to that
\* service's history and leaves what is kept for every other service as it was.
C17_OwnHistoryOnly ==
    [][\A i \in 1..Len(probeLog) : Completes(i) =>
          /\ proto = "main" =>
                /\ Len(HistoryOf(services'[i])) = Len(HistoryOf(services[i])) + 1
                /\ SubSeq(HistoryOf(services'[i]), 1, Len(HistoryOf(services[i])))
                      = HistoryOf(services[i])
                /\ \A j \in Svc \ {i} : services'[j] = services[j]
          /\ proto = "temp" => \A j \in Svc \ {i} : widgets'[j] = widgets[j]]_vars

\* a service there from the start and one added through the modal later, both
\* probed, with histories of different lengths
C17_Witness ==
    /\ proto = "main"
    /\ \E i, j \in Svc :
          /\ addedAt[i] = 0
          /\ addedAt[j] > 0
          /\ Len(HistoryOf(services[i])) = 2
          /\ Len(HistoryOf(services[j])) = 1

\* C18: firings are fixed-rate: a probe that follows another of the same
\* service starts exactly check_interval after the start of that one, however
\* long that one took.
C18_FixedRate ==
    \A p \in InFlight :
        (probeLog[p.svc].n > 0 /\ IntervalOf(p.svc) >= 1) =>
            p.started = probeLog[p.svc].start + IntervalOf(p.svc)

\* C19: a selection changes current_service only, to a member of the service
\* list; the services and their histories, the config file, the table and the
\* probe schedule stay as they were.
C19_SelectReadOnly ==
    [][current_service' # current_service =>
          /\ current_service' \in 1..Len(services)
          /\ UNCHANGED <<services, store, table, row_keys, column_keys, workers,
                         nextFire, fires, addedAt, probeLog>>]_vars

\* the second row was selected and its service has been probed
C19_Witness ==
    /\ current_service = 2
    /\ Len(HistoryOf(services[current_service])) > 0

RecordSet(st) == {st.recs[k] : k \in 1..Len(st.recs)}

\* C20: in temp.py the config file holds the same set of records after the
\* load at startup as before it.
C20_LoadKeepsStore ==
    [][(proto = "temp" /\ phase = "init" /\ phase' = "running"
            /\ store.exists /\ store.ok) =>
          (store'.exists /\ store'.ok /\ RecordSet(store') = RecordSet(store))]_vars

====
